---- MODULE Spec2Model ----
(***************************************************************************)
(* Model of the provider layer of describe-commit (package internal/ai):   *)
(* the OpenAI and OpenRouter providers, their Query operation, the wire    *)
(* request they build and the way they turn a transport reply into a       *)
(* Response or an error.                                                   *)
(*                                                                         *)
(* Texts whose characters matter (the contents of the returned choices,    *)
(* the Answer) are sequences of one-character strings.  Texts that are     *)
(* only compared or searched for a fragment (error texts, prompt lines)    *)
(* are sequences of fragments.  A Go pointer or error that may be nil is a *)
(* sequence of length 0 (nil) or 1.                                        *)
(***************************************************************************)
EXTENDS Naturals, Sequences, FiniteSets

VARIABLES
    provider,   \* the two provider structs: httpClient, apiKey, modelName
    given,      \* per invocation: the arguments Query is called with
    stub,       \* per invocation: what the injected transport answers
    call,       \* per invocation: the frame of Query (position, locals, result)
    doCalls,    \* per invocation: number of httpClient.Do calls issued
    bodyReads   \* per invocation: number of times resp.Body was decoded

vars == <<provider, given, stub, call, doCalls, bodyReads>>

(***************************************************************************)
(* Bounds of the model.                                                    *)
(***************************************************************************)
\* total number of characters over all choices of one reply body
MaxChars == 3
\* number of choices in one reply body
MaxChoices == 2

Slots == {1, 2}
Providers == {"OpenAI", "OpenRouter"}

\* the characters a content is made of: a letter, a space, a tab, a line break
Chars == {"a", " ", "\t", "\n"}

None == <<>>
Some(x) == <<x>>
IsNil(o) == Len(o) = 0

Range(s) == {s[k] : k \in 1..Len(s)}

(***************************************************************************)
(* Text functions of the Go standard library, as the providers use them.   *)
(***************************************************************************)
\* strings.Join(texts, sep)
RECURSIVE Join(_, _)
Join(texts, sep) ==
    IF Len(texts) = 0 THEN <<>>
    ELSE IF Len(texts) = 1 THEN texts[1]
    ELSE texts[1] \o sep \o Join(Tail(texts), sep)

RECURSIVE TrimLeft(_, _)
TrimLeft(s, cutset) ==
    IF Len(s) > 0 /\ s[1] \in cutset THEN TrimLeft(Tail(s), cutset) ELSE s

RECURSIVE TrimRight(_, _)
TrimRight(s, cutset) ==
    IF Len(s) > 0 /\ s[Len(s)] \in cutset
    THEN TrimRight(SubSeq(s, 1, Len(s) - 1), cutset)
    ELSE s

\* strings.Trim(s, cutset)
Trim(s, cutset) == TrimRight(TrimLeft(s, cutset), cutset)

\* strings.Split(s, sep) for a one-character separator: always at least one part
RECURSIVE Split(_, _)
Split(s, sep) ==
    IF sep \notin Range(s) THEN <<s>>
    ELSE LET k == CHOOSE n \in 1..Len(s) :
                      s[n] = sep /\ \A m \in 1..(n - 1) : s[m] # sep
         IN <<SubSeq(s, 1, k - 1)>> \o Split(SubSeq(s, k + 1, Len(s)), sep)

\* the cutset of strings.Trim(..., "\n\t ")
TrimCutset == {"\n", "\t", " "}

\* http.StatusText
StatusText(code) ==
    CASE code = 200 -> "OK"
      [] code = 401 -> "Unauthorized"
      [] code = 500 -> "Internal Server Error"
      [] OTHER -> ""

\* the %d rendering of a status code
Itoa(code) ==
    CASE code = 200 -> "200"
      [] code = 401 -> "401"
      [] code = 500 -> "500"
      [] OTHER -> "?"

(***************************************************************************)
(* Options and the prompt generator, as section 4.1 of the specification   *)
(* and the markers of TestGeneratePrompt describe them.  A prompt is kept  *)
(* as the sequence of its marker phrases.                                  *)
(***************************************************************************)
defaultMaxOutputTokens == 500

\* the Guidelines variant for ShortMessageOnly
ShortGuidelines(o) ==
    << "Focus on the primary purpose of the commit",
       "Summarize all changes in a single",
       "Explain why the changes were made" >>

\* the Guidelines variant for the full message
FullGuidelines(o) ==
    << "Use present tense",
       "without period at the end",
       "Focus on summarizing",
       "Vague messages like",
       "Keep commit messages clean",
       "Commit Message Structure",
       "The first line should follow the Conventional Commit format",
       "Commit Body",
       "add a detailed description in bullet points",
       "Explain additional context",
       "Include a **summary** and a list",
       "Avoid excessive detail",
       "Don't start it with \"This commit\"" >>

\* the format line and its worked example
FormatLines(o) ==
    IF o.EnableEmoji
    THEN << "<emoji> <type>(<scope>): <message>", "<bug emoji> fix(auth): Resolve" >>
    ELSE << "<type>(<scope>): <message>", "fix(auth): Resolve" >>

generatePrompt_BothVariants(o) ==
    << "Role", "acting as a Git",
       "Task", "git diff --staged", "convert it", "well-structured Git commit message",
       "Guidelines", "Conventional Commit" >>
    \o FormatLines(o)
    \o ShortGuidelines(o) \o FullGuidelines(o)
    \o << "Security", "Never include sensitive data" >>

\* generatePrompt(options): the instruction lines
generatePrompt(o) ==
    << "Role", "acting as a Git",
       "Task", "git diff --staged", "convert it", "well-structured Git commit message",
       "Guidelines", "Conventional Commit" >>
    \o FormatLines(o)
    \o (IF o.ShortMessageOnly THEN ShortGuidelines(o) ELSE FullGuidelines(o))
    \o << "Security", "Never include sensitive data" >>

\* GeneratePrompt(opts...): the instruction text, kept as its sequence of lines
GeneratePrompt(o) == generatePrompt(o)

\* wrapChanges / wrapCommits: the text inside its distinguishing delimiter
wrapChanges(changes) == [delimiter |-> "changes", text |-> changes]
wrapCommits(commits) == [delimiter |-> "commits", text |-> commits]

(***************************************************************************)
(* Construction.                                                           *)
(***************************************************************************)
NewOpenAI(apiKey, model, client) ==
    [httpClient |-> client, apiKey |-> apiKey, modelName |-> model]

NewOpenRouter(apiKey, model, client) ==
    [httpClient |-> client, apiKey |-> apiKey, modelName |-> model]

Constructed ==
    [p \in Providers |->
        IF p = "OpenAI" THEN NewOpenAI("sk-openai", "gpt", "stub")
        ELSE NewOpenRouter("sk-openrouter", "router-model", "stub")]

(***************************************************************************)
(* newRequest: the wire request, or the error of building it.  Marshalling *)
(* strings and numbers cannot fail; http.NewRequestWithContext fails for a *)
(* nil context.                                                            *)
(***************************************************************************)
Envelope(instructions, changes, commits) ==
    << [Role |-> "system", Content |-> instructions],
       [Role |-> "user", Content |-> wrapChanges(changes)],
       [Role |-> "user", Content |-> wrapCommits(commits)] >>

OpenAI_newRequest_Swapped(p, ctxNil, instructions, changes, commits, o) ==
    IF ctxNil THEN [req |-> None, err |-> Some(<<"net/http: nil Context">>)]
    ELSE [req |-> Some([
              method |-> "POST",
              url |-> "https://api.openai.com/v1/chat/completions",
              header |-> [ContentType |-> "application/json",
                          Authorization |-> <<"Bearer ", p.apiKey>>],
              body |-> [model |-> p.modelName,
                        messages |-> << [Role |-> "system", Content |-> instructions],
                                        [Role |-> "user", Content |-> wrapCommits(commits)],
                                        [Role |-> "user", Content |-> wrapChanges(changes)] >>,
                        store |-> FALSE,
                        temperature |-> "0.1",
                        top_p |-> "0.1",
                        n |-> 1,
                        max_completion_tokens |-> o.MaxOutputTokens]]),
          err |-> None]

OpenAI_newRequest(p, ctxNil, instructions, changes, commits, o) ==
    IF ctxNil THEN [req |-> None, err |-> Some(<<"net/http: nil Context">>)]
    ELSE [req |-> Some([
              method |-> "POST",
              url |-> "https://api.openai.com/v1/chat/completions",
              header |-> [ContentType |-> "application/json",
                          Authorization |-> <<"Bearer ", p.apiKey>>],
              body |-> [model |-> p.modelName,
                        messages |-> Envelope(instructions, changes, commits),
                        store |-> FALSE,
                        temperature |-> "0.1",
                        top_p |-> "0.1",
                        n |-> 1,
                        max_completion_tokens |-> o.MaxOutputTokens]]),
          err |-> None]

OpenRouter_newRequest(p, ctxNil, instructions, changes, commits, o) ==
    IF ctxNil THEN [req |-> None, err |-> Some(<<"net/http: nil Context">>)]
    ELSE [req |-> Some([
              method |-> "POST",
              url |-> "https://openrouter.ai/api/v1/chat/completions",
              header |-> [ContentType |-> "application/json",
                          Authorization |-> <<"Bearer ", p.apiKey>>,
                          HTTPReferer |-> "https://github.com/tarampampam/describe-commit",
                          XTitle |-> "describe-commit",
                          XVersion |-> "1.0.0"],
              body |-> [model |-> p.modelName,
                        messages |-> Envelope(instructions, changes, commits),
                        temperature |-> "0.1",
                        top_p |-> "0.1",
                        n |-> 1,
                        max_tokens |-> o.MaxOutputTokens,
                        stream |-> FALSE]]),
          err |-> None]

newRequest(name, p, ctxNil, instructions, changes, commits, o) ==
    IF name = "OpenAI"
    THEN OpenAI_newRequest(p, ctxNil, instructions, changes, commits, o)
    ELSE OpenRouter_newRequest(p, ctxNil, instructions, changes, commits, o)

(***************************************************************************)
(* The part of OpenAI.Query after httpClient.Do has returned.              *)
(* A result is [resp, err, reads]: the two return values and the number of *)
(* times the response body was decoded.                                    *)
(***************************************************************************)
\* OpenAI.responseToError
responseToError(resp) ==
    IF resp.body.decodable /\ resp.body.errorMessage # ""
    THEN << "OpenAI API error: ", resp.body.errorMessage,
            " (status code: ", Itoa(resp.status), ")" >>
    ELSE << "unexpected OpenAI API response status code: ", Itoa(resp.status),
            " (", StatusText(resp.status), ")" >>

parseResponse_IgnoreDecodeError(resp) ==
    IF Len(resp.body.choices) = 0 /\ resp.body.decodable
    THEN [answer |-> <<>>, err |-> Some(<<"no response from the OpenAI API">>)]
    ELSE [answer |-> Trim(Join(SelectSeq(resp.body.choices, LAMBDA c : c # <<>>),
                               <<"\n">>), TrimCutset),
          err |-> None]

\* OpenAI.parseResponse
parseResponse(resp) ==
    IF ~resp.body.decodable
    THEN [answer |-> <<>>, err |-> Some(<<"json: cannot decode the response body">>)]
    ELSE IF Len(resp.body.choices) = 0
    THEN [answer |-> <<>>, err |-> Some(<<"no response from the OpenAI API">>)]
    ELSE [answer |-> Trim(Join(SelectSeq(resp.body.choices, LAMBDA c : c # <<>>),
                               <<"\n">>), TrimCutset),
          err |-> None]

\* OpenAI.Query from the return of httpClient.Do on
OpenAI_AfterDo(opt, instructions, reply) ==
    IF reply.transportError
    THEN [resp |-> None, err |-> Some(<<"transport: request failed">>), reads |-> 0]
    ELSE IF reply.status # 200
    THEN [resp |-> None, err |-> Some(responseToError(reply)), reads |-> 1]
    ELSE LET parsed == parseResponse(reply)
         IN IF ~IsNil(parsed.err)
            THEN [resp |-> None, err |-> parsed.err, reads |-> 1]
            ELSE IF opt.ShortMessageOnly
            THEN LET parts == Split(parsed.answer, "\n")
                 IN IF Len(parts) = 0
                    THEN [resp |-> None,
                          err |-> Some(<<"no response from the OpenAI API">>),
                          reads |-> 1]
                    ELSE [resp |-> Some([Prompt |-> instructions, Answer |-> parts[1]]),
                          err |-> None, reads |-> 1]
            ELSE [resp |-> Some([Prompt |-> instructions, Answer |-> parsed.answer]),
                  err |-> None, reads |-> 1]

(***************************************************************************)
(* The part of OpenRouter.Query after httpClient.Do has returned.          *)
(***************************************************************************)
OpenRouter_AfterDo(opt, instructions, reply) ==
    IF reply.transportError
    THEN [resp |-> None, err |-> Some(<<"transport: request failed">>), reads |-> 0]
    ELSE IF reply.status # 200
    THEN [resp |-> None,
          err |-> Some(<< "unexpected OpenRouter API response status code: ",
                          Itoa(reply.status) >>),
          reads |-> 0]
    ELSE IF ~reply.body.decodable
    THEN [resp |-> None, err |-> Some(<<"json: cannot decode the response body">>),
          reads |-> 1]
    ELSE IF Len(reply.body.choices) = 0 \/ reply.body.choices[1] = <<>>
    THEN [resp |-> None, err |-> Some(<<"no response from OpenRouter API">>),
          reads |-> 1]
    ELSE IF opt.ShortMessageOnly
    THEN LET parts == Split(reply.body.choices[1], "\n")
         IN IF Len(parts) = 0
            THEN [resp |-> None, err |-> Some(<<"no response from OpenRouter API">>),
                  reads |-> 1]
            ELSE [resp |-> Some([Prompt |-> instructions, Answer |-> parts[1]]),
                  err |-> None, reads |-> 1]
    ELSE [resp |-> Some([Prompt |-> instructions, Answer |-> reply.body.choices[1]]),
          err |-> None, reads |-> 1]

AfterDo(name, opt, instructions, reply) ==
    IF name = "OpenAI"
    THEN OpenAI_AfterDo(opt, instructions, reply)
    ELSE OpenRouter_AfterDo(opt, instructions, reply)

(***************************************************************************)
(* The inputs.                                                             *)
(***************************************************************************)
Contents(n) == UNION {[1..k -> Chars] : k \in 0..n}

\* the lists of at most k contents holding at most budget characters in all
RECURSIVE ChoiceLists(_, _)
ChoiceLists(k, budget) ==
    {<<>>} \cup
    (IF k = 0 THEN {}
     ELSE UNION {{<<c>> \o r : r \in ChoiceLists(k - 1, budget - Len(c))} :
                 c \in Contents(budget)})

Undecodable == [decodable |-> FALSE, errorMessage |-> "", choices |-> <<>>]

\* the JSON shapes of a reply body: not JSON at all, an error object, choices
Bodies ==
    {Undecodable}
    \cup {[decodable |-> TRUE, errorMessage |-> "bad key", choices |-> <<>>]}
    \cup {[decodable |-> TRUE, errorMessage |-> "", choices |-> cs] :
          cs \in ChoiceLists(MaxChoices, MaxChars)}

StatusCodes == {200, 401, 500}

TransportFailure == [transportError |-> TRUE, status |-> 0, body |-> Undecodable]

Replies ==
    {TransportFailure}
    \cup {[transportError |-> FALSE, status |-> s, body |-> b] :
          s \in StatusCodes, b \in Bodies}

\* the options value once the caller's modifiers have been applied to the zero value
OptionValues ==
    [ShortMessageOnly : BOOLEAN, EnableEmoji : BOOLEAN, MaxOutputTokens : {0, 300}]

Texts == {[changes |-> "", commits |-> ""],
          [changes |-> "diff --git a/x b/x", commits |-> "feat: add y"]}

Args ==
    {[ctxNil |-> c, changes |-> t.changes, commits |-> t.commits, opts |-> o] :
     c \in BOOLEAN, t \in Texts, o \in OptionValues}

\* a nil context ends Query before the transport is reached: its reply is never used
Cases == {<<a, r>> \in Args \X Replies : a.ctxNil => r = TransportFailure}

Frame(name) ==
    [pc |-> "idle", p |-> name, opt |-> None, instructions |-> None,
     req |-> None, ret |-> [resp |-> None, err |-> None]]

(***************************************************************************)
(* Query, in the two steps the blocking transport call splits it into.     *)
(***************************************************************************)
\* options{}.Apply(opts...) followed by the default of MaxOutputTokens
Resolve(o) ==
    IF o.MaxOutputTokens = 0
    THEN [o EXCEPT !.MaxOutputTokens = defaultMaxOutputTokens]
    ELSE o

\* Query up to and including the call of httpClient.Do
Begin(i) ==
    /\ call[i].pc = "idle"
    /\ LET name == call[i].p
           g == given[i]
           opt == Resolve(g.opts)
           instructions == GeneratePrompt(g.opts)
           built == newRequest(name, provider[name], g.ctxNil, instructions,
                               g.changes, g.commits, opt)
       IN IF ~IsNil(built.err)
          THEN /\ call' = [call EXCEPT ![i] =
                              [@ EXCEPT !.pc = "done",
                                        !.opt = Some(opt),
                                        !.instructions = Some(instructions),
                                        !.ret = [resp |-> None, err |-> built.err]]]
               /\ UNCHANGED doCalls
          ELSE /\ call' = [call EXCEPT ![i] =
                              [@ EXCEPT !.pc = "sent",
                                        !.opt = Some(opt),
                                        !.instructions = Some(instructions),
                                        !.req = built.req]]
               /\ doCalls' = [doCalls EXCEPT ![i] = @ + 1]
    /\ UNCHANGED <<given, stub, bodyReads>>

QueryStart_StoresModel(i) ==
    /\ Begin(i)
    /\ provider' = [provider EXCEPT ![call[i].p].modelName =
                       IF given[i].opts.ShortMessageOnly THEN "short-model" ELSE @]

QueryStart(i) ==
    /\ Begin(i)
    /\ UNCHANGED provider

\* Query from the return of httpClient.Do to its own return
Complete(i) ==
    /\ call[i].pc = "sent"
    /\ LET out == AfterDo(call[i].p, call[i].opt[1], call[i].instructions[1], stub[i])
       IN /\ call' = [call EXCEPT ![i] =
                         [@ EXCEPT !.pc = "done",
                                   !.ret = [resp |-> out.resp, err |-> out.err]]]
          /\ bodyReads' = [bodyReads EXCEPT ![i] = @ + out.reads]
    /\ UNCHANGED <<provider, given, stub, doCalls>>

QueryFinish_Retry(i) ==
    IF call[i].pc = "sent" /\ stub[i].transportError /\ doCalls[i] < 2
    THEN /\ doCalls' = [doCalls EXCEPT ![i] = @ + 1]
         /\ UNCHANGED <<provider, given, stub, call, bodyReads>>
    ELSE Complete(i)

QueryFinish(i) == Complete(i)

(***************************************************************************)
(* Specifications.                                                         *)
(*   Spec:     one case (arguments and stubbed reply) is given to both     *)
(*             providers, slot 1 to OpenAI and slot 2 to OpenRouter.       *)
(*   ConcSpec: two invocations, each with arguments and a reply of its     *)
(*             own, run concurrently on the same provider value.           *)
(***************************************************************************)
SlotProvider(i) == IF i = 1 THEN "OpenAI" ELSE "OpenRouter"

Init ==
    /\ provider = Constructed
    /\ \E c \in Cases :
          /\ given = [i \in Slots |-> c[1]]
          /\ stub = [i \in Slots |-> c[2]]
    /\ call = [i \in Slots |-> Frame(SlotProvider(i))]
    /\ doCalls = [i \in Slots |-> 0]
    /\ bodyReads = [i \in Slots |-> 0]

Next == \E i \in Slots : QueryStart(i) \/ QueryFinish(i)

Spec == Init /\ [][Next]_vars

Line(text) == [decodable |-> TRUE, errorMessage |-> "", choices |-> <<text>>]

ConcArgs ==
    {[ctxNil |-> c, changes |-> "diff --git a/x b/x", commits |-> "feat: add y",
      opts |-> [ShortMessageOnly |-> s, EnableEmoji |-> FALSE, MaxOutputTokens |-> 0]] :
     c \in BOOLEAN, s \in BOOLEAN}

ConcReplies ==
    { TransportFailure,
      [transportError |-> FALSE, status |-> 401,
       body |-> [decodable |-> TRUE, errorMessage |-> "bad key", choices |-> <<>>]],
      [transportError |-> FALSE, status |-> 200, body |-> Undecodable],
      [transportError |-> FALSE, status |-> 200, body |-> Line(<<"a", "\n", "a">>)],
      [transportError |-> FALSE, status |-> 200, body |-> Line(<<"b">>)] }

ConcInit ==
    /\ provider = Constructed
    /\ given \in [Slots -> ConcArgs]
    /\ stub \in [Slots -> ConcReplies]
    /\ \E name \in Providers : call = [i \in Slots |-> Frame(name)]
    /\ doCalls = [i \in Slots |-> 0]
    /\ bodyReads = [i \in Slots |-> 0]

ConcSpec == ConcInit /\ [][Next]_vars

(***************************************************************************)
(* Vocabulary of the properties.                                           *)
(***************************************************************************)
Done(i) == call[i].pc = "done"
Succeeded(i) == Done(i) /\ ~IsNil(call[i].ret.resp)
Failed(i) == Done(i) /\ ~IsNil(call[i].ret.err)
Answer(i) == call[i].ret.resp[1].Answer
ErrorText(i) == call[i].ret.err[1]

\* the invocation got a response (of any status) from the transport
GotResponse(i) == Done(i) /\ ~given[i].ctxNil /\ ~stub[i].transportError

\* a text made of fragments contains a fragment
Contains(text, fragment) == fragment = "" \/ fragment \in Range(text)

\* the reply of the model as section 4.2 of the specification defines it:
\* the non-empty contents joined by line breaks, then trimmed
TrimmedReply(body) ==
    Trim(Join(SelectSeq(body.choices, LAMBDA c : c # <<>>), <<"\n">>), TrimCutset)

FirstLine(text) == Split(text, "\n")[1]

\* the result the same invocation yields with ShortMessageOnly unset
Unshortened(i) ==
    AfterDo(call[i].p, [call[i].opt[1] EXCEPT !.ShortMessageOnly = FALSE],
            call[i].instructions[1], stub[i])

\* the outcome of Query as a function of the invocation's own arguments, the
\* reply to its own request and the provider as constructed
Expected(i) ==
    LET name == call[i].p
        g == given[i]
        built == newRequest(name, Constructed[name], g.ctxNil, GeneratePrompt(g.opts),
                            g.changes, g.commits, Resolve(g.opts))
        out == AfterDo(name, Resolve(g.opts), GeneratePrompt(g.opts), stub[i])
    IN IF ~IsNil(built.err)
       THEN [req |-> None, ret |-> [resp |-> None, err |-> built.err]]
       ELSE [req |-> built.req, ret |-> [resp |-> out.resp, err |-> out.err]]

(***************************************************************************)
(* The claims.                                                             *)
(***************************************************************************)

\* C1: given the same arguments and the same stubbed reply, OpenAI.Query and
\* OpenRouter.Query either both fail or both succeed with the same Response.
C1_Substitutable ==
    (Done(1) /\ Done(2) /\ call[1].p # call[2].p
        /\ given[1] = given[2] /\ stub[1] = stub[2])
    => \/ Failed(1) /\ Failed(2)
       \/ Succeeded(1) /\ Succeeded(2) /\ call[1].ret.resp = call[2].ret.resp

\* C2: on a non-200 status Query returns an error whose text contains the
\* message the provider reported in the body, or else the status text.
C2_StatusErrorText ==
    \A i \in Slots :
        (GotResponse(i) /\ stub[i].status # 200)
        => /\ Failed(i) /\ IsNil(call[i].ret.resp)
           /\ Contains(ErrorText(i),
                       IF stub[i].body.decodable /\ stub[i].body.errorMessage # ""
                       THEN stub[i].body.errorMessage
                       ELSE StatusText(stub[i].status))

\* C3: a 200 reply with no choices, or with choices that all have empty
\* content, makes Query fail with a "no response" error and no Response.
C3_EmptyResultFails ==
    \A i \in Slots :
        (GotResponse(i) /\ stub[i].status = 200 /\ stub[i].body.decodable
            /\ \A k \in 1..Len(stub[i].body.choices) : stub[i].body.choices[k] = <<>>)
        => /\ IsNil(call[i].ret.resp)
           /\ Failed(i)
           /\ ErrorText(i) \in {<<"no response from the OpenAI API">>,
                                <<"no response from OpenRouter API">>}

\* C4: with ShortMessageOnly a successful Answer has no line break and is the
\* first line of the trimmed reply, which is the first line of the Answer the
\* same reply yields without ShortMessageOnly; without it the Answer is the
\* whole trimmed reply.
C4_ShortIsFirstLine ==
    \A i \in Slots :
        Succeeded(i) =>
            IF call[i].opt[1].ShortMessageOnly
            THEN /\ "\n" \notin Range(Answer(i))
                 /\ Answer(i) = FirstLine(TrimmedReply(stub[i].body))
                 /\ Answer(i) = FirstLine(Unshortened(i).resp[1].Answer)
            ELSE Answer(i) = TrimmedReply(stub[i].body)

\* C5: a successful Answer never begins or ends with a line break, a tab or
\* a space.
C5_AnswerTrimmed ==
    \A i \in Slots :
        (Succeeded(i) /\ Len(Answer(i)) > 0)
        => /\ Answer(i)[1] \notin TrimCutset
           /\ Answer(i)[Len(Answer(i))] \notin TrimCutset

\* C6: Query returns exactly one of a Response and an error, and a Response
\* only after a 200 reply whose body was decoded.
C6_NoPartialResult ==
    \A i \in Slots :
        Done(i) =>
            /\ IsNil(call[i].ret.resp) # IsNil(call[i].ret.err)
            /\ ~IsNil(call[i].ret.resp) =>
                  /\ ~given[i].ctxNil
                  /\ ~stub[i].transportError
                  /\ stub[i].status = 200
                  /\ stub[i].body.decodable

\* one provider returned a Response while the other returned an error
C6_Witness ==
    \E i, j \in Slots : Succeeded(i) /\ Failed(j) /\ IsNil(call[j].ret.resp)

\* C7, as stated: every invocation issues exactly one transport call, never
\* a second one, and reads the body only once that call has completed.
C7_ExactlyOneCall ==
    \A i \in Slots :
        /\ doCalls[i] <= 1
        /\ Done(i) => doCalls[i] = 1
        /\ bodyReads[i] > 0 => (doCalls[i] = 1 /\ Done(i))

\* C7, amended: every invocation issues at most one transport call, exactly
\* one whenever its request could be built (none for a nil context), never a
\* second one after any failure, and reads the body only once that call has
\* completed.
C7_AtMostOneCall ==
    \A i \in Slots :
        /\ doCalls[i] <= 1
        /\ Done(i) => doCalls[i] = (IF given[i].ctxNil THEN 0 ELSE 1)
        /\ bodyReads[i] <= 1
        /\ bodyReads[i] > 0 => (doCalls[i] = 1 /\ Done(i))

\* an invocation ended with the transport's error after its single call
C7_Witness ==
    \E i \in Slots :
        /\ Failed(i) /\ ~given[i].ctxNil /\ stub[i].transportError
        /\ doCalls[i] = 1 /\ bodyReads[i] = 0

\* C8: Query never writes the provider's fields, and under every
\* interleaving of two invocations on the same provider value each request
\* and each result depend only on the invocation's own arguments and on the
\* reply to its own request.
C8_NoInterference ==
    /\ provider = Constructed
    /\ \A i \in Slots :
          /\ call[i].pc # "idle" => call[i].req = Expected(i).req
          /\ Done(i) => call[i].ret = Expected(i).ret

\* one invocation has returned a Response while the other, started with
\* other arguments on the same provider, is still waiting for its reply
C8_Witness ==
    \E i, j \in Slots :
        /\ call[i].p = call[j].p
        /\ Succeeded(i) /\ call[j].pc = "sent"
        /\ given[i] # given[j] /\ stub[i] # stub[j]

\* C9: the wire request carries exactly three messages, the system message
\* with the instructions, the user message with the wrapped changes and the
\* user message with the wrapped commits, in this order; on success
\* Response.Prompt is the content of the system message.
C9_Envelope ==
    \A i \in Slots :
        ~IsNil(call[i].req) =>
            LET m == call[i].req[1].body.messages
            IN /\ Len(m) = 3
               /\ m[1] = [Role |-> "system", Content |-> GeneratePrompt(given[i].opts)]
               /\ m[2] = [Role |-> "user", Content |-> wrapChanges(given[i].changes)]
               /\ m[3] = [Role |-> "user", Content |-> wrapCommits(given[i].commits)]
               /\ Succeeded(i) => call[i].ret.resp[1].Prompt = m[1].Content

\* both providers returned a Response for a request with changes and commits
C9_Witness ==
    \A i \in Slots :
        /\ Succeeded(i) /\ ~IsNil(call[i].req)
        /\ given[i].changes # "" /\ given[i].commits # ""

\* C10: for each combination of ShortMessageOnly and EnableEmoji the
\* instructions contain the Role, Task and Security markers, the markers of
\* the selected Guidelines variant and none of the other variant's markers,
\* and the emoji format marker only when EnableEmoji is set.
C10_PromptVariants ==
    \A i \in Slots :
        ~IsNil(call[i].instructions) =>
            LET lines == Range(call[i].instructions[1])
                o == given[i].opts
            IN /\ {"Role", "Task", "Security"} \subseteq lines
               /\ IF o.ShortMessageOnly
                  THEN /\ "Summarize all changes in a single" \in lines
                       /\ "Commit Message Structure" \notin lines
                       /\ "Commit Body" \notin lines
                  ELSE /\ "Commit Message Structure" \in lines
                       /\ "Commit Body" \in lines
                       /\ "Summarize all changes in a single" \notin lines
               /\ "<emoji> <type>(<scope>): <message>" \in lines => o.EnableEmoji

\* instructions were generated for the short variant with the emoji format
C10_Witness ==
    \E i \in Slots :
        /\ ~IsNil(call[i].instructions)
        /\ given[i].opts.ShortMessageOnly /\ given[i].opts.EnableEmoji
        /\ "<emoji> <type>(<scope>): <message>" \in Range(call[i].instructions[1])
        /\ "Summarize all changes in a single" \in Range(call[i].instructions[1])

====
